---- MODULE Spec2Model ----
(***************************************************************************)
(* dask-checkpoint: Storage scopes that inject load and save instructions  *)
(* into dask graphs (src/dask_checkpoint/storage.py), the tasks they act   *)
(* on (src/dask_checkpoint/task.py) and the default encoder                *)
(* (src/pipeline/encoder.py).                                              *)
(*                                                                         *)
(* State:                                                                  *)
(*   data          : the mapping behind every Storage                      *)
(*   optimizations : the "optimizations" entry of dask's configuration     *)
(*   saved         : the frames of the open scopes, outermost first: the   *)
(*                   arguments of Storage.__call__ and the configuration   *)
(*                   that dask.config.set restores on exit                 *)
(*   counter       : Counter.counter, the calls of the counting task       *)
(*   last          : the compute() in progress: what went in, what the     *)
(*                   engine did and what it returns                        *)
(*   raised        : 0, or the number of scopes that were open when the    *)
(*                   error now propagating was raised                      *)
(*   invocation    : the call of a task in progress: task.__call__ with    *)
(*                   its arguments and what it raised or the key it made   *)
(*   delayed       : the Delayed objects the calls of tasks have returned  *)
(*   submitted     : the keys of the Delayed objects handed to the engine  *)
(*   encoding      : the declaration of an encoder class or task type and  *)
(*                   the value it encodes and decodes                      *)
(*   passes        : per independent process, its compute(): the graph it  *)
(*                   has rewritten and what the engine did with it         *)
(*   membership    : the last evaluation of `item in storage`              *)
(*   targets       : the memory of DictTarget, and the last compute of the *)
(*                   target-based variant (src/pipeline/context.py)        *)
(***************************************************************************)
EXTENDS Integers, Sequences, FiniteSets, TLC

VARIABLES data, optimizations, saved, counter, last, raised,
          invocation, delayed, submitted, encoding, passes, membership,
          targets

storevars == <<data, optimizations, saved, counter, last, raised>>

keyvars == <<invocation, delayed, submitted>>

auxvars == <<membership, targets>>

vars == <<storevars, keyvars, encoding, passes, auxvars>>

---------------------------------------------------------------------------
(* Bounds of the model *)

\* number of Storage scopes that may be open at once
MaxDepth == 2

\* number of times the body of the counting task may be executed
MaxCalls == 2

\* number of Delayed objects the calls of tasks may have returned
MaxDelayed == 2

\* number of generic encoders an encoder class may declare
MaxEncoders == 2

---------------------------------------------------------------------------
(* The universe: two storages and a graph of three keys.                   *)
(*   a : a task called positionally,    a = counter_task()                 *)
(*       (a Counter: it returns the number of times it has been called)    *)
(*   b : a task called with a keyword,  b = func(x=a), func(x) = 0 * x     *)
(*   c : a plain function of both,      c = a + b                          *)

Storages == {"S1", "S2"}

\* Storage.from_chain(S1, S2)
Chain == "S12"

TaskKeys == {"a", "b"}

Keys == {"a", "b", "c"}

None == "none"

\* task(..., save=flag) is built anew for every run: the key does not
\* depend on the flag
SaveFlags == [TaskKeys -> BOOLEAN]

---------------------------------------------------------------------------
(* DefaultEncoder: encoders=None, serializer=cloudpickle,                  *)
(* compressor=zstandard, encrypter=None.  Bytes are modelled as the stack  *)
(* of transforms applied to the value.                                     *)

dumps(value) == <<"cloudpickle", value>>

loads(bytes) == bytes[2]

compress(bytes) == <<"zstandard", bytes>>

decompress(bytes) == bytes[2]

encode(value) == compress(dumps(value))

decode(bytes) == loads(decompress(bytes))

---------------------------------------------------------------------------
(* Graph entries.  An entry is the tuple stored under a key of the graph:  *)
(*   head   : what value[0] is: "Task", "apply", "function", "load", "save"*)
(*   second : what value[1] is when head is "apply"                        *)
(*   save   : the save flag of the Task object in the tuple                *)
(*   func   : the function behind the Task object (or the plain function)  *)
(*   self   : the Storage whose bound method heads a load or save tuple    *)
(*   lit    : the literal(key) argument of a load or save tuple            *)
(*   args   : the keys the tuple refers to                                 *)
(*   value  : <<the wrapped computation>> of a save tuple, else <<>>       *)

CallEntry(head, second, sv, func, args) ==
    [head |-> head, second |-> second, save |-> sv, func |-> func,
     self |-> None, lit |-> None, args |-> args, value |-> <<>>]

\* task.__call__: delayed_func(*args, **kwargs, dask_key_name=key)
TaskCall(key, sv) ==
    IF key = "a"
    THEN CallEntry("Task", None, sv, "counter", {})
    ELSE CallEntry("apply", "Task", sv, "func", {"a"})

\* the graph the user's code builds
UserGraph(flags) ==
    [k \in Keys |->
        IF k \in TaskKeys
        THEN TaskCall(k, flags[k])
        ELSE CallEntry("function", None, FALSE, "add", {"a", "b"})]

RECURSIVE Dependencies(_)
Dependencies(v) ==
    v.args \cup (IF v.value = <<>> THEN {} ELSE Dependencies(v.value[1]))

RECURSIVE Reachable(_, _, _)
Reachable(dsk, frontier, seen) ==
    IF frontier = {}
    THEN seen
    ELSE LET next == UNION {Dependencies(dsk[k]) : k \in frontier}
         IN  Reachable(dsk, (next \cap DOMAIN dsk) \ (seen \cup frontier),
                       seen \cup frontier)

Restrict(dsk, keep) == [k \in keep |-> dsk[k]]

\* dask.optimization.cull(dsk, keys)
cull(dsk, keys) == Restrict(dsk, Reachable(dsk, keys \cap DOMAIN dsk, {}))

---------------------------------------------------------------------------
(* Storage.data: the dict of a plain Storage, the ChainMap of a chained one *)

\* mutant of maps: only the first storage's mapping is chained
maps_first_only(self) == IF self = Chain THEN <<"S1">> ELSE <<self>>

\* ChainMap.maps: the mappings of the chained storages, in argument order
maps(self) == IF self = Chain THEN <<"S1", "S2">> ELSE <<self>>

\* key in self.data: true when any of the mappings holds the key
Contains(self, key) ==
    \E i \in 1..Len(maps(self)) : key \in DOMAIN data[maps(self)[i]]

\* mutant of Lookup: the last mapping that holds the key answers
Lookup_last(self, key, i) ==
    LET hits == {j \in 1..Len(maps(self)) : key \in DOMAIN data[maps(self)[j]]}
    IN  data[maps(self)[CHOOSE j \in hits : \A k \in hits : k <= j]][key]

\* self.data[key]: the mappings are tried in order from the i-th, the first
\* that holds the key answers
RECURSIVE Lookup(_, _, _)
Lookup(self, key, i) ==
    IF key \in DOMAIN data[maps(self)[i]]
    THEN data[maps(self)[i]][key]
    ELSE Lookup(self, key, i + 1)

GetItem(self, key) == Lookup(self, key, 1)

\* mutant of Primary: writes go to the last mapping
Primary_last(self) == maps(self)[Len(maps(self))]

\* self.data[key] = value: writes go to the first mapping
Primary(self) == maps(self)[1]

---------------------------------------------------------------------------
(* Storage: the graph optimizers *)

\* mutant of _yield_tasks: Task.save is not looked at
_yield_tasks_any_flag(dsk) ==
    {key \in DOMAIN dsk :
        (IF dsk[key].head = "apply" THEN dsk[key].second ELSE dsk[key].head)
            = "Task"}

\* mutant of _yield_tasks: what heads the tuple is not looked at
_yield_tasks_any_head(dsk) == {key \in DOMAIN dsk : dsk[key].save}

\* _yield_tasks: the keys whose tuple is headed by a Task (directly or
\* through apply) with Task.save true
_yield_tasks(dsk) ==
    {key \in DOMAIN dsk :
        LET v == dsk[key]
            task == IF v.head = "apply" THEN v.second ELSE v.head
        IN  task = "Task" /\ v.save}

\* mutant of LoadEntry: the key is given as it is, a reference to the node
LoadEntry_reference(self, key, v) ==
    [head |-> "load", second |-> None, save |-> v.save, func |-> v.func,
     self |-> self, lit |-> key, args |-> {key}, value |-> <<>>]

\* (self.load, literal(key), task)
LoadEntry(self, key, v) ==
    [head |-> "load", second |-> None, save |-> v.save, func |-> v.func,
     self |-> self, lit |-> key, args |-> {}, value |-> <<>>]

\* (self.save, literal(key), task, value)
SaveEntry(self, key, v) ==
    [head |-> "save", second |-> None, save |-> v.save, func |-> v.func,
     self |-> self, lit |-> key, args |-> {}, value |-> <<v>>]

\* the loop of optimize_load over the yielded tasks
InjectLoad(self, dsk, tasks) ==
    [key \in DOMAIN dsk |->
        IF key \in tasks /\ Contains(self, key)
        THEN LoadEntry(self, key, dsk[key])
        ELSE dsk[key]]

\* mutant of optimize_load: nothing is replaced by a load
optimize_load_nothing(self, dsk, keys) == cull(dsk, keys)

\* mutant of optimize_load: the graph is not culled
optimize_load_no_cull(self, dsk, keys) ==
    InjectLoad(self, dsk, _yield_tasks(dsk))

\* Storage.optimize_load
optimize_load(self, dsk, keys) ==
    cull(InjectLoad(self, dsk, _yield_tasks(dsk)), keys)

\* mutant of InjectSave: every node is wrapped by a save
InjectSave_every(self, dsk, tasks) ==
    [key \in DOMAIN dsk |-> SaveEntry(self, key, dsk[key])]

\* the loop of optimize_save over the yielded tasks
InjectSave(self, dsk, tasks) ==
    [key \in DOMAIN dsk |->
        IF key \in tasks THEN SaveEntry(self, key, dsk[key]) ELSE dsk[key]]

\* mutant of optimize_save: nothing is wrapped by a save
optimize_save_nothing(self, dsk, keys) == dsk

\* Storage.optimize_save
optimize_save(self, dsk, keys) ==
    InjectSave(self, dsk, _yield_tasks(dsk))

\* an element of dask's "optimizations": a bound method of a Storage
Method(name, self) == [method |-> name, self |-> self]

ApplyOptimizer(opt, dsk, keys) ==
    IF opt.method = "optimize_load"
    THEN optimize_load(opt.self, dsk, keys)
    ELSE optimize_save(opt.self, dsk, keys)

\* dask applies the configured optimizations in order
RECURSIVE Optimize(_, _, _)
Optimize(opts, dsk, keys) ==
    IF opts = <<>>
    THEN dsk
    ELSE Optimize(Tail(opts), ApplyOptimizer(Head(opts), dsk, keys), keys)

---------------------------------------------------------------------------
(* Storage.__call__: the scope *)

\* mutant of FirstSave: no optimize_save is ever recognised
FirstSave_never(opts, i) == 0

\* the index of the first Storage.optimize_save in opts, 0 when there is none
RECURSIVE FirstSave(_, _)
FirstSave(opts, i) ==
    IF i > Len(opts) THEN 0
    ELSE IF opts[i].method = "optimize_save" THEN i
    ELSE FirstSave(opts, i + 1)

\* mutant of ScopeOptimizations: the optimizers of the new scope are put
\* after those in force
ScopeOptimizations_outer_first(self, save, nested, current) ==
    (IF nested THEN current ELSE <<>>)
        \o <<Method("optimize_load", self)>>
        \o (IF save THEN <<Method("optimize_save", self)>> ELSE <<>>)

\* mutant of ScopeOptimizations: the save optimizer is put first
ScopeOptimizations_save_first(self, save, nested, current) ==
    (IF save THEN <<Method("optimize_save", self)>> ELSE <<>>)
        \o <<Method("optimize_load", self)>>
        \o (IF nested THEN current ELSE <<>>)

\* mutant of ScopeOptimizations: the save argument is ignored
ScopeOptimizations_always_save(self, save, nested, current) ==
    <<Method("optimize_load", self)>>
        \o (IF nested THEN current ELSE <<>>)
        \o <<Method("optimize_save", self)>>

\* mutant of ScopeOptimizations: load and save are both put in front
ScopeOptimizations_prepend(self, save, nested, current) ==
    <<Method("optimize_load", self)>>
        \o (IF save THEN <<Method("optimize_save", self)>> ELSE <<>>)
        \o (IF nested THEN current ELSE <<>>)

\* mutant of ScopeOptimizations: nested=False is treated as nested=True
ScopeOptimizations_ignore_nested(self, save, nested, current) ==
    <<Method("optimize_load", self)>>
        \o current
        \o (IF save THEN <<Method("optimize_save", self)>> ELSE <<>>)

\* the optimizations a scope installs
ScopeOptimizations(self, save, nested, current) ==
    IF ~nested
    THEN IF save
         THEN <<Method("optimize_load", self), Method("optimize_save", self)>>
         ELSE <<Method("optimize_load", self)>>
    ELSE IF ~save
         THEN <<Method("optimize_load", self)>> \o current
         ELSE LET i == FirstSave(current, 1)
              IN  IF i > 0
                  THEN <<Method("optimize_load", self)>>
                       \o SubSeq(current, 1, i - 1)
                       \o <<Method("optimize_save", self)>>
                       \o SubSeq(current, i, Len(current))
                  ELSE <<Method("optimize_load", self)>>
                       \o current
                       \o <<Method("optimize_save", self)>>

---------------------------------------------------------------------------
(* Execution of a rewritten graph by the engine *)

\* the computation at the bottom of a tuple: save tuples wrap it
RECURSIVE Computation(_)
Computation(v) == IF v.head = "save" THEN Computation(v.value[1]) ELSE v

\* the storages a tuple writes to when it is executed
RECURSIVE SaveTargets(_)
SaveTargets(v) ==
    IF v.head = "save" THEN {v.self} \cup SaveTargets(v.value[1]) ELSE {}

\* the value the engine obtains for a key
RECURSIVE Result(_, _)
Result(dsk, key) ==
    LET v == Computation(dsk[key])
    IN  IF v.head = "load"
        THEN decode(GetItem(v.self, v.lit))           \* Storage.load
        ELSE IF v.func = "counter"
        THEN counter + 1                              \* Counter.__call__
        ELSE IF v.func = "func"
        THEN 0 * Result(dsk, "a")
        ELSE Result(dsk, "a") + Result(dsk, "b")      \* add

\* the keys whose original function is called by the engine
Called(dsk, keys) ==
    {key \in Reachable(dsk, keys, {}) : Computation(dsk[key]).head # "load"}

\* mutant of Written: a save tuple writes nothing
Written_never(self, dsk, keys) == {}

\* Storage.save: self.data[key.data] = task.encode(value)
Written(self, dsk, keys) ==
    {key \in Reachable(dsk, keys, {}) :
        \E target \in SaveTargets(dsk[key]) : Primary(target) = self}

\* mutant of SetItem: an entry the mapping holds is kept
SetItem_keep(mapping, written, dsk) ==
    [key \in DOMAIN mapping \cup written |->
        IF key \in DOMAIN mapping THEN mapping[key]
        ELSE encode(Result(dsk, key))]

\* self.data[key.data] = ...: the entries written replace what was there
SetItem(mapping, written, dsk) ==
    [key \in DOMAIN mapping \cup written |->
        IF key \in written THEN encode(Result(dsk, key)) ELSE mapping[key]]

---------------------------------------------------------------------------
(* task: the derivation of the key of an invocation.                       *)
(*   func         : def func(x),         @task                             *)
(*   func_exclude : def func(x, y),      @task(hasher=exclude("y"))        *)
(*   func_default : def func(x, y="1"),  @task                             *)
(*   func_exclude_default : def func(x, y="1"), @task(hasher=exclude("y")) *)
(* The values passed are "1" and "u", an instance of Unhashable, whose     *)
(* __dask_tokenize__ raises RuntimeError.                                  *)

Functions == {"func", "func_exclude", "func_default", "func_exclude_default"}

Values == {"1", "u"}

Unhashable == "u"

\* signature(func): the declared parameters, in order
Parameters(func) == IF func = "func" THEN <<"x">> ELSE <<"x", "y">>

\* signature(func): the declared defaults
Defaults(func) ==
    IF func \in {"func_default", "func_exclude_default"}
    THEN [n \in {"y"} |-> "1"]
    ELSE <<>>

\* the names given to exclude(*names) when the task was declared
Excluded(func) ==
    IF func \in {"func_exclude", "func_exclude_default"} THEN <<"y">> ELSE <<>>

Range(seq) == {seq[i] : i \in 1..Len(seq)}

\* the outcome of a step that raises, or that returns value
Raises(error) == [raised |-> error, value |-> <<>>]

Returns(value) == [raised |-> None, value |-> value]

\* mutant of bind: only the keyword arguments are kept
bind_keywords_only(func, args, kwargs) == Returns(kwargs)

\* Signature.bind(*args, **kwargs): the mapping from parameter names to the
\* values passed; TypeError when the call does not fit the signature.
\* Defaults are not filled in.
bind(func, args, kwargs) ==
    LET params == Parameters(func)
        positional == {params[i] : i \in 1..Len(args) \cap 1..Len(params)}
        Position(n) == CHOOSE i \in 1..Len(params) : params[i] = n
    IN  IF Len(args) > Len(params)
        THEN Raises("TypeError")              \* too many positional arguments
        ELSE IF \E n \in DOMAIN kwargs : n \notin Range(params)
        THEN Raises("TypeError")              \* unexpected keyword argument
        ELSE IF positional \cap DOMAIN kwargs # {}
        THEN Raises("TypeError")              \* multiple values for argument
        ELSE IF \E n \in Range(params) :
                   n \notin positional \cup DOMAIN kwargs
                               \cup DOMAIN Defaults(func)
        THEN Raises("TypeError")              \* missing a required argument
        ELSE Returns([n \in positional \cup DOMAIN kwargs |->
                         IF n \in positional
                         THEN args[Position(n)]
                         ELSE kwargs[n]])

\* mutant of tokenize: a value that cannot be tokenized is hashed as it is
tokenize_by_identity(kwargs) == Returns(<<"md5", kwargs>>)

\* hasher.tokenize: dask's tokenize(**kwargs), the digest of the names and
\* values; it raises what a value's __dask_tokenize__ raises
tokenize(kwargs) ==
    IF \E n \in DOMAIN kwargs : kwargs[n] = Unhashable
    THEN Raises("RuntimeError")
    ELSE Returns(<<"md5", kwargs>>)

\* mutant of exclude_hasher: the names are not deleted
exclude_hasher_keeps(names, kwargs) == tokenize(kwargs)

\* hasher.exclude(*names): del kwargs[name] for every name, then tokenize
RECURSIVE exclude_hasher(_, _)
exclude_hasher(names, kwargs) ==
    IF names = <<>>
    THEN tokenize(kwargs)
    ELSE IF Head(names) \notin DOMAIN kwargs
    THEN Raises("KeyError")
    ELSE exclude_hasher(Tail(names),
                        [n \in DOMAIN kwargs \ {Head(names)} |-> kwargs[n]])

\* hasher.function_name: f"{func.__name__}/"
function_name(func) == <<func, "/">>

\* task.key: f"{self.name}{h}"
task_key(func, kwargs) ==
    LET h == exclude_hasher(Excluded(func), kwargs)
    IN  IF h.raised # None
        THEN Raises(h.raised)
        ELSE Returns(<<function_name(func), h.value>>)

\* the first two lines of task.__call__: bind, then key
Derive(func, args, kwargs) ==
    LET bound == bind(func, args, kwargs)
    IN  IF bound.raised # None
        THEN Raises(bound.raised)
        ELSE task_key(func, bound.value)

\* no invocation in progress
NoCall ==
    [valid |-> FALSE, func |-> None, args |-> <<>>, kwargs |-> <<>>,
     raised |-> None, key |-> <<>>]

---------------------------------------------------------------------------
(* DefaultEncoder and Task of src/pipeline: a class declares its stages as *)
(* class attributes; a stage is None or an object with two operations.     *)
(* A value is a term: <<"value", v>>, or <<name, term>> for the term a     *)
(* stage named name has transformed.  The second operation of a stage      *)
(* undoes the first operation of the same stage, and of no other.          *)

\* a stage attribute set to None
NoStage == [name |-> None, methods |-> {}]

Stage(name, methods) == [name |-> name, methods |-> methods]

\* objects given as generic encoders: two that implement encode and
\* decode, one that implements encode only
EncoderObjects ==
    {Stage("e1", {"encode", "decode"}), Stage("e2", {"encode", "decode"}),
     Stage("e0", {"encode"})}

\* the module cloudpickle, and an object without loads
SerializerObjects ==
    {NoStage, Stage("cloudpickle", {"dumps", "loads"}),
     Stage("s0", {"dumps"})}

\* the module zstandard, and an object without compress
CompressorObjects ==
    {NoStage, Stage("zstandard", {"compress", "decompress"}),
     Stage("c0", {"decompress"})}

\* an object that encrypts and decrypts, and an object without decrypt
EncrypterObjects ==
    {NoStage, Stage("encrypter", {"encrypt", "decrypt"}),
     Stage("x0", {"encrypt"})}

\* the attribute encoders: None, or a tuple of objects, or a list
EncodersAttributes ==
    {[set |-> FALSE, tuple |-> FALSE, items |-> <<>>]}
        \cup {[set |-> TRUE, tuple |-> TRUE, items |-> items] :
                 items \in UNION {[1..n -> EncoderObjects] :
                                     n \in 0..MaxEncoders}}
        \cup {[set |-> TRUE, tuple |-> FALSE,
               items |-> <<Stage("e1", {"encode", "decode"})>>]}

\* the classes that may be declared: subclasses of DefaultEncoder, and
\* subclasses of Task, which has no attribute encoders
Declarations ==
    {[kind |-> kind, encoders |-> encoders, serializer |-> serializer,
      compressor |-> compressor, encrypter |-> encrypter] :
        kind \in {"DefaultEncoder", "Task"},
        encoders \in EncodersAttributes,
        serializer \in SerializerObjects,
        compressor \in CompressorObjects,
        encrypter \in EncrypterObjects}

\* isinstance(obj, Protocol) of a runtime_checkable protocol: the object
\* has every operation of the protocol
Implements(obj, methods) == methods \subseteq obj.methods

\* mutant of Validate: the compressor is not validated
Validate_skips_compressor(cls) ==
    IF /\ cls.kind = "DefaultEncoder"
       /\ cls.encoders.set
       /\ \/ ~cls.encoders.tuple
          \/ \E i \in 1..Len(cls.encoders.items) :
                ~Implements(cls.encoders.items[i], {"encode", "decode"})
    THEN "TypeError"
    ELSE IF /\ cls.serializer # NoStage
            /\ ~Implements(cls.serializer, {"dumps", "loads"})
    THEN "TypeError"
    ELSE IF /\ cls.encrypter # NoStage
            /\ ~Implements(cls.encrypter, {"encrypt", "decrypt"})
    THEN "TypeError"
    ELSE None

\* DefaultEncoder.__init_subclass__ and the validation of the stages in
\* Task.__init_subclass__: what the declaration raises
Validate(cls) ==
    IF /\ cls.kind = "DefaultEncoder"
       /\ cls.encoders.set
       /\ \/ ~cls.encoders.tuple
          \/ \E i \in 1..Len(cls.encoders.items) :
                ~Implements(cls.encoders.items[i], {"encode", "decode"})
    THEN "TypeError"
    ELSE IF /\ cls.serializer # NoStage
            /\ ~Implements(cls.serializer, {"dumps", "loads"})
    THEN "TypeError"
    ELSE IF /\ cls.compressor # NoStage
            /\ ~Implements(cls.compressor, {"compress", "decompress"})
    THEN "TypeError"
    ELSE IF /\ cls.encrypter # NoStage
            /\ ~Implements(cls.encrypter, {"encrypt", "decrypt"})
    THEN "TypeError"
    ELSE None

\* one operation of a stage, applied to a value
Operation(stage, method, forward) ==
    [stage |-> stage.name, method |-> method, forward |-> forward]

\* the generic encoders a class encodes with: Task has none
EncodersOf(cls) ==
    IF cls.kind = "DefaultEncoder" /\ cls.encoders.set
    THEN cls.encoders.items
    ELSE <<>>

StageOperation(stage, method, forward) ==
    IF stage = NoStage THEN <<>> ELSE <<Operation(stage, method, forward)>>

\* the operations encode applies, in order
EncodeOperations(cls) ==
    [i \in 1..Len(EncodersOf(cls)) |->
        Operation(EncodersOf(cls)[i], "encode", TRUE)]
        \o StageOperation(cls.serializer, "dumps", TRUE)
        \o StageOperation(cls.compressor, "compress", TRUE)
        \o StageOperation(cls.encrypter, "encrypt", TRUE)

\* the operations decode applies, in order
DecodeOperations(cls) ==
    StageOperation(cls.encrypter, "decrypt", FALSE)
        \o StageOperation(cls.compressor, "decompress", FALSE)
        \o StageOperation(cls.serializer, "loads", FALSE)
        \o [i \in 1..Len(EncodersOf(cls)) |->
               Operation(EncodersOf(cls)[i], "decode", FALSE)]

\* the value an operation returns
Transform(op, term) ==
    IF op.forward
    THEN <<op.stage, term>>
    ELSE IF term[1] = op.stage
    THEN term[2]
    ELSE <<"invalid", term>>

RECURSIVE Pipeline(_, _)
Pipeline(ops, term) ==
    IF ops = <<>>
    THEN term
    ELSE Pipeline(Tail(ops), Transform(Head(ops), term))

\* no class has been declared
NoEncoding ==
    [phase |-> "none", cls |-> <<>>, raised |-> None, value |-> <<>>,
     encoded |-> <<>>, bytes |-> <<>>, decoded |-> <<>>, result |-> <<>>]

---------------------------------------------------------------------------
(* The rewriting pass on the graph objects.  A graph is a dict object; the *)
(* objects are kept in a sequence and referred to by their index.  The     *)
(* loops of the optimizers visit the items of a dict in the order of the   *)
(* dict, which is the order the graph was built in.                        *)

\* the orders the items of a graph may be in
Orders ==
    {order \in [1..Cardinality(Keys) -> Keys] :
        \A i, j \in 1..Cardinality(Keys) : order[i] = order[j] => i = j}

\* mutant of DictCopy: the dict received is used as it is
DictCopy_alias(objs, ref) == [objs |-> objs, ref |-> ref]

\* dsk = dict(dsk): a new dict with the same items
DictCopy(objs, ref) == [objs |-> Append(objs, objs[ref]), ref |-> Len(objs) + 1]

\* mutant of Visit: optimize_load does not ask the store for the key
Visit_unchecked(dsk, key, self, method, graph) ==
    /\ key \in DOMAIN dsk
    /\ key \in _yield_tasks(dsk)

\* mutant of Visit: the loop ends with the first item it replaces
Visit_first_only(dsk, key, self, method, graph) ==
    /\ key \in DOMAIN dsk
    /\ key \in _yield_tasks(dsk)
    /\ method = "optimize_load" => Contains(self, key)
    /\ \A k \in DOMAIN dsk : dsk[k] = graph[k]

\* whether the loop of an optimizer replaces the item of key, dsk being the
\* dict as the loop has changed it so far and graph the dict it started on
Visit(dsk, key, self, method, graph) ==
    /\ key \in DOMAIN dsk
    /\ key \in _yield_tasks(dsk)
    /\ method = "optimize_load" => Contains(self, key)

\* for key, value, task in _yield_tasks(dsk, keys): dsk[key] = ...
RECURSIVE Loop(_, _, _, _, _, _, _)
Loop(objs, ref, order, i, self, method, graph) ==
    IF i > Len(order)
    THEN objs
    ELSE IF Visit(objs[ref], order[i], self, method, graph)
    THEN Loop([objs EXCEPT ![ref][order[i]] =
                   IF method = "optimize_load"
                   THEN LoadEntry(self, order[i], objs[ref][order[i]])
                   ELSE SaveEntry(self, order[i], objs[ref][order[i]])],
              ref, order, i + 1, self, method, graph)
    ELSE Loop(objs, ref, order, i + 1, self, method, graph)

\* an optimizer on the objects: the dict it works on and the dict it returns
Looped(copied, order, self, method) ==
    Loop(copied.objs, copied.ref, order, 1, self, method,
         copied.objs[copied.ref])

Culled(objs, ref, keys) ==
    [objs |-> Append(objs, cull(objs[ref], keys)), ref |-> Len(objs) + 1]

\* Storage.optimize_load on the objects: copy, loop, cull
optimize_load_objects(self, objs, ref, keys, order) ==
    Culled(Looped(DictCopy(objs, ref), order, self, "optimize_load"),
           DictCopy(objs, ref).ref, keys)

\* Storage.optimize_save on the objects: copy, loop
optimize_save_objects(self, objs, ref, keys, order) ==
    [objs |-> Looped(DictCopy(objs, ref), order, self, "optimize_save"),
     ref |-> DictCopy(objs, ref).ref]

\* dask applies the configured optimizations in order, each to the dict
\* the one before returned; received lists the dicts they were given
RECURSIVE OptimizeObjects(_, _, _, _, _, _)
OptimizeObjects(opts, objs, ref, received, keys, order) ==
    IF opts = <<>>
    THEN [objs |-> objs, ref |-> ref, received |-> received]
    ELSE LET out == IF Head(opts).method = "optimize_load"
                    THEN optimize_load_objects(Head(opts).self, objs, ref,
                                               keys, order)
                    ELSE optimize_save_objects(Head(opts).self, objs, ref,
                                               keys, order)
         IN  OptimizeObjects(Tail(opts), out.objs, out.ref,
                             Append(received, ref), keys, order)

---------------------------------------------------------------------------
(* Independent processes computing against one store *)

Procs == {"p1", "p2"}

\* the storage the processes share: Storage(data) over the same mapping
Shared == "S1"

\* the tasks of the graph are declared save=True
Persisted == [k \in TaskKeys |-> TRUE]

\* the process is not computing
NoPass ==
    [phase |-> "idle", save |-> FALSE, keys |-> {}, held |-> {},
     graph |-> <<>>, received |-> <<>>, dsk |-> <<>>, called |-> {},
     wrote |-> {}, overwrote |-> {}, result |-> <<>>, error |-> None]

---------------------------------------------------------------------------
(* Storage.__contains__: `item in storage` *)

\* what is tested for membership: the Delayed object of a task, or a key
Items ==
    [type : {"Delayed"}, key : TaskKeys] \cup [type : {"str"}, key : TaskKeys]

\* Storage.__contains__: for a Delayed, `task.key in self` evaluates
\* __contains__ again, with the key, a str; anything but a Delayed raises
RECURSIVE Storage_contains(_, _)
Storage_contains(self, item) ==
    IF item.type = "Delayed"
    THEN Storage_contains(self, [type |-> "str", key |-> item.key])
    ELSE Raises("NotImplementedError")

\* no membership test has been evaluated
NoTest ==
    [valid |-> FALSE, self |-> None, item |-> <<>>, held |-> FALSE,
     raised |-> None, value |-> <<>>]

---------------------------------------------------------------------------
(* The target-based variant: src/pipeline/context.py and targets/core.py.  *)
(* The graph is the one Task.__new__ of src/pipeline/task.py builds: the   *)
(* tuple of a task is headed by the Task instance, or by apply with the    *)
(* Task instance second.  A task has a target when its class defines the   *)
(* property target as DictTarget of its key.  A bound method of a task is  *)
(* an entry with head "method" whose self is the key of the task.          *)

\* the results of the tasks, which are pure here
TargetValue(key) == IF key = "b" THEN 0 ELSE 1

\* what a program may have stored in a target by itself
Results == {0, 1, 2}

\* DictTarget.complete: self.key in self.__memory
complete(memory, key) == key \in DOMAIN memory

\* DictTarget.save: self.__memory[self.key] = result
DictTarget_save(memory, key, result) ==
    [k \in DOMAIN memory \cup {key} |-> IF k = key THEN result ELSE memory[k]]

\* DictTarget.remove: del self.__memory[self.key]
DictTarget_remove(memory, key) == [k \in DOMAIN memory \ {key} |-> memory[k]]

\* (task.load,)
MethodEntry(key, v) ==
    [head |-> "method", second |-> None, save |-> v.save, func |-> "load",
     self |-> key, lit |-> None, args |-> {}, value |-> <<>>]

\* get_task_instance: func = dsk[key][0]; task = func.__self__.  Only a
\* bound method has __self__: for a Task instance, apply or a function the
\* AttributeError is suppressed and None is returned; so it is when the
\* task has no target.  The task is returned as its key.
get_task_instance(dsk, key, with) ==
    IF dsk[key].head # "method" THEN None
    ELSE IF dsk[key].self \notin with THEN None
    ELSE dsk[key].self

\* Save._posttask for the finished keys in turn
RECURSIVE _posttask(_, _, _, _)
_posttask(memory, dsk, finished, with) ==
    IF finished = {}
    THEN memory
    ELSE LET key == CHOOSE k \in finished : TRUE
             task == get_task_instance(dsk, key, with)
         IN  _posttask(IF task # None /\ ~complete(memory, task)
                       THEN DictTarget_save(memory, task, TargetValue(task))
                       ELSE memory,
                       dsk, finished \ {key}, with)

\* Load._optimize: the tasks whose target is complete become (task.load,),
\* then the graph is culled
_optimize(memory, dsk, keys, with) ==
    cull([key \in DOMAIN dsk |->
             IF /\ get_task_instance(dsk, key, with) # None
                /\ complete(memory, get_task_instance(dsk, key, with))
             THEN MethodEntry(get_task_instance(dsk, key, with), dsk[key])
             ELSE dsk[key]],
         keys)

\* no compute of the variant is observed
NoTargetRun ==
    [valid |-> FALSE, mode |-> None, keys |-> {}, with |-> {},
     before |-> <<>>, graph |-> <<>>, dsk |-> <<>>]

---------------------------------------------------------------------------
(* The observation of a compute: what went in and what came out *)

NoRun ==
    [valid |-> FALSE, graph |-> <<>>, keys |-> {},
     before |-> [s \in Storages |-> <<>>], calls |-> 0, dsk |-> <<>>,
     called |-> {}, result |-> <<>>]

---------------------------------------------------------------------------
(* Actions *)

Init ==
    /\ data = [s \in Storages |-> <<>>]
    /\ optimizations = <<>>
    /\ saved = <<>>
    /\ counter = 0
    /\ last = NoRun
    /\ raised = 0
    /\ invocation = NoCall
    /\ delayed = {}
    /\ submitted = {}
    /\ encoding = NoEncoding
    /\ passes = [p \in Procs |-> NoPass]
    /\ membership = NoTest
    /\ targets = [memory |-> <<>>, run |-> NoTargetRun]

\* with storage(save=save, nested=nested): entering the scope
Enter(self, save, nested) ==
    /\ ~last.valid
    /\ raised = 0
    /\ Len(saved) < MaxDepth
    /\ saved' = Append(saved, [self |-> self, save |-> save, nested |-> nested,
                                old |-> optimizations])
    /\ optimizations' = ScopeOptimizations(self, save, nested, optimizations)
    /\ UNCHANGED <<data, counter, last, raised>>
    /\ UNCHANGED <<keyvars, encoding, passes, auxvars>>

\* mutant of Exit: the old value is restored only when the body finished
\* normally
Exit_no_cleanup ==
    /\ ~last.valid
    /\ saved # <<>>
    /\ optimizations' =
          IF raised = 0 THEN saved[Len(saved)].old ELSE optimizations
    /\ saved' = SubSeq(saved, 1, Len(saved) - 1)
    /\ UNCHANGED <<data, counter, last, raised>>
    /\ UNCHANGED <<keyvars, encoding, passes, auxvars>>

\* leaving the innermost scope, at the end of the body or with the error
\* thrown into the generator at its yield: dask.config.set restores the old
\* value on both paths, and the error goes on to the caller
Exit ==
    /\ ~last.valid
    /\ saved # <<>>
    /\ optimizations' = saved[Len(saved)].old
    /\ saved' = SubSeq(saved, 1, Len(saved) - 1)
    /\ UNCHANGED <<data, counter, last, raised>>
    /\ UNCHANGED <<keyvars, encoding, passes, auxvars>>

\* the body of the innermost scope raises an error
Raise ==
    /\ ~last.valid
    /\ raised = 0
    /\ saved # <<>>
    /\ raised' = Len(saved)
    /\ UNCHANGED <<data, optimizations, saved, counter, last>>
    /\ UNCHANGED <<keyvars, encoding, passes, auxvars>>

\* the error reaches a handler around the scopes it has left
\* (pytest.raises in the tests)
Catch ==
    /\ raised > 0
    /\ raised' = 0
    /\ UNCHANGED <<data, optimizations, saved, counter, last>>
    /\ UNCHANGED <<keyvars, encoding, passes, auxvars>>

\* the engine evaluates the rewritten graph dsk: the functions in called
\* run, the save tuples write, and compute() has its result
Execute(graph, dsk, keys, called) ==
    /\ "a" \in called => counter < MaxCalls
    /\ counter' = IF "a" \in called THEN counter + 1 ELSE counter
    /\ data' = [s \in Storages |->
                   SetItem(data[s], Written(s, dsk, keys), dsk)]
    /\ last' = [valid |-> TRUE, graph |-> graph, keys |-> keys,
                before |-> data, calls |-> counter, dsk |-> dsk,
                called |-> called,
                result |-> [k \in keys |-> Result(dsk, k)]]
    /\ UNCHANGED <<optimizations, saved, raised>>
    /\ UNCHANGED <<keyvars, encoding, passes, auxvars>>

\* the rewritten graph is handed to the engine
Schedule(graph, dsk, keys) == Execute(graph, dsk, keys, Called(dsk, keys))

\* collection.compute() of the requested keys of a freshly built graph:
\* the configured optimizations rewrite the graph, the engine executes it
Compute(flags, keys) ==
    /\ ~last.valid
    /\ raised = 0
    /\ LET graph == cull(UserGraph(flags), keys)
       IN  Schedule(graph, Optimize(optimizations, graph, keys), keys)

\* compute() has returned and its result has been used by the caller
Return ==
    /\ last.valid
    /\ last' = NoRun
    /\ UNCHANGED <<data, optimizations, saved, counter, raised>>
    /\ UNCHANGED <<keyvars, encoding, passes, auxvars>>

Next ==
    \/ \E self \in Storages, save \in BOOLEAN, nested \in BOOLEAN :
          Enter(self, save, nested)
    \/ Exit
    \/ \E flags \in SaveFlags, key \in Keys :
          Compute(flags, {key})
    \/ Return
    \/ Raise
    \/ Catch

Spec == Init /\ [][Next]_vars

\* with Storage.from_chain(S1, S2)(save=save): entered outside every scope
EnterChain(save) ==
    /\ saved = <<>>
    /\ Enter(Chain, save, TRUE)

\* the program with a chained storage next to the plain ones
NextChain ==
    \/ \E self \in Storages, save \in BOOLEAN, nested \in BOOLEAN :
          Enter(self, save, nested)
    \/ \E save \in BOOLEAN : EnterChain(save)
    \/ Exit
    \/ \E flags \in SaveFlags, key \in Keys :
          Compute(flags, {key})
    \/ Return
    \/ Raise
    \/ Catch

SpecChain == Init /\ [][NextChain]_vars

---------------------------------------------------------------------------
(* Actions of the invocation of tasks *)

\* the last line of task.__call__: when the key was derived,
\* self.delayed_func(*args, **kwargs, dask_key_name=key) returns the Delayed
\* object; when bind or key raised, the error leaves __call__ before it
MakeDelayed(func, args, kwargs, derived) ==
    LET made == IF derived.raised = None
                THEN {[func |-> func, args |-> args, kwargs |-> kwargs,
                       key |-> derived.value]}
                ELSE {}
    IN  /\ Cardinality(delayed \cup made) <= MaxDelayed
        /\ delayed' = delayed \cup made
        /\ invocation' = [valid |-> TRUE, func |-> func, args |-> args,
                          kwargs |-> kwargs, raised |-> derived.raised,
                          key |-> derived.value]
        /\ UNCHANGED <<submitted, storevars, encoding, passes, auxvars>>

\* task.__call__(*args, **kwargs)
Call(func, args, kwargs) ==
    /\ ~invocation.valid
    /\ MakeDelayed(func, args, kwargs, Derive(func, args, kwargs))

\* the call has returned its Delayed object, or its error was handled
Done ==
    /\ invocation.valid
    /\ invocation' = NoCall
    /\ UNCHANGED <<delayed, submitted, storevars, encoding, passes, auxvars>>

\* delayed.compute(): the Delayed object is handed to the engine
Submit(d) ==
    /\ ~invocation.valid
    /\ d.key \notin submitted
    /\ submitted' = submitted \cup {d.key}
    /\ UNCHANGED <<invocation, delayed, storevars, encoding, passes, auxvars>>

\* the positional and the keyword arguments a call of func may be given
ArgsOf(func) ==
    UNION {[1..n -> Values] : n \in 0..Len(Parameters(func))}

KwargsOf(func) ==
    UNION {[names -> Values] : names \in SUBSET Range(Parameters(func))}

NextKey ==
    \/ \E func \in Functions :
          \E args \in ArgsOf(func), kwargs \in KwargsOf(func) :
              Call(func, args, kwargs)
    \/ Done
    \/ \E d \in delayed : Submit(d)

SpecKey == Init /\ [][NextKey]_vars

---------------------------------------------------------------------------
(* Actions of the encoders *)

\* class cls(DefaultEncoder) or class cls(Task): __init_subclass__ raises
\* and there is no class, or the class exists
Declared(cls, error) ==
    /\ encoding' = [NoEncoding EXCEPT
                       !.phase = IF error = None
                                 THEN "declared"
                                 ELSE "rejected",
                       !.cls = <<cls>>,
                       !.raised = error]
    /\ UNCHANGED <<storevars, keyvars, passes, auxvars>>

Declare(cls) ==
    /\ encoding.phase = "none"
    /\ Declared(cls, Validate(cls))

\* cls.encode(value)
Encode(value) ==
    /\ encoding.phase = "declared"
    /\ encoding' = [encoding EXCEPT
                       !.phase = "encoded",
                       !.value = value,
                       !.encoded = EncodeOperations(encoding.cls[1]),
                       !.bytes = Pipeline(EncodeOperations(encoding.cls[1]),
                                          value)]
    /\ UNCHANGED <<storevars, keyvars, passes, auxvars>>

\* cls.decode(bytes) of the bytes cls.encode returned
Decode ==
    /\ encoding.phase = "encoded"
    /\ encoding' = [encoding EXCEPT
                       !.phase = "decoded",
                       !.decoded = DecodeOperations(encoding.cls[1]),
                       !.result = Pipeline(DecodeOperations(encoding.cls[1]),
                                           encoding.bytes)]
    /\ UNCHANGED <<storevars, keyvars, passes, auxvars>>

\* the class is dropped, or the TypeError of its declaration is handled
Forget ==
    /\ encoding.phase \in {"rejected", "decoded"}
    /\ encoding' = NoEncoding
    /\ UNCHANGED <<storevars, keyvars, passes, auxvars>>

NextEncoder ==
    \/ \E cls \in Declarations : Declare(cls)
    \/ \E v \in {"v1", "v2"} : Encode(<<"value", v>>)
    \/ Decode
    \/ Forget

SpecEncoder == Init /\ [][NextEncoder]_vars

---------------------------------------------------------------------------
(* Processes that share a store.  Each runs                                *)
(*     with storage(save=save): collection.compute()                       *)
(* The optimizations rewrite the graph when compute() starts; the engine   *)
(* evaluates the rewritten graph afterwards.  Between the two the other    *)
(* process, or anything else that holds the mapping, may act on the store. *)

\* the load tuples whose key the store does not hold when they are
\* evaluated: self.data[key.data] raises KeyError
Failing(dsk, keys) ==
    {key \in Reachable(dsk, keys, {}) :
        /\ Computation(dsk[key]).head = "load"
        /\ ~Contains(Computation(dsk[key]).self, Computation(dsk[key]).lit)}

\* mutant of Recomputed: a load that fails calls the task instead
Recomputed_fallback(dsk, failing) == failing

\* Storage.load is one subscription and no except clause: no task is
\* called in place of a load that fails
Recomputed(dsk, failing) == {}

\* mutant of Runs: the engine evaluates every node, failed or not
Runs_everything(dsk, keys, failing) == {Reachable(dsk, keys, {})}

\* the sets of nodes the engine may have evaluated when compute() ends:
\* all of them when none fails; otherwise the exception of the first
\* failure ends compute(), no node that needs a failed one is evaluated,
\* and of the others any set closed under dependencies may have been
Runs(dsk, keys, failing) ==
    IF failing = {}
    THEN {Reachable(dsk, keys, {})}
    ELSE {ran \in SUBSET {k \in Reachable(dsk, keys, {}) :
                             Reachable(dsk, {k}, {}) \cap failing = {}} :
             \A k \in ran : Reachable(dsk, {k}, {}) \subseteq ran}

\* compute() starts: the optimizations of the scope rewrite the graph
Rewrite(p, save, keys, order) ==
    /\ passes[p].phase = "idle"
    /\ LET graph == cull(UserGraph(Persisted), keys)
           out == OptimizeObjects(
                      ScopeOptimizations(Shared, save, FALSE, <<>>),
                      <<graph>>, 1, <<>>, keys, order)
       IN  passes' = [passes EXCEPT ![p] =
               [NoPass EXCEPT !.phase = "rewritten", !.save = save,
                              !.keys = keys,
                              !.held = DOMAIN data[Shared],
                              !.graph = graph,
                              !.received =
                                  [i \in 1..Len(out.received) |->
                                      out.objs[out.received[i]]],
                              !.dsk = out.objs[out.ref]]]
    /\ UNCHANGED <<storevars, keyvars, encoding, auxvars>>

\* the engine has evaluated the nodes in ran
Engine(p, dsk, keys, ran, failing) ==
    LET called == {k \in ran : Computation(dsk[k]).head # "load"}
                      \cup Recomputed(dsk, failing)
        wrote == {k \in ran :
                     \E target \in SaveTargets(dsk[k]) :
                         Primary(target) = Shared}
    IN  /\ "a" \in called => counter < MaxCalls
        /\ counter' = IF "a" \in called THEN counter + 1 ELSE counter
        /\ data' = [data EXCEPT
                       ![Shared] = SetItem(data[Shared], wrote, dsk)]
        /\ passes' = [passes EXCEPT ![p] =
               [@ EXCEPT !.phase = IF failing = {} THEN "done"
                                   ELSE "failed",
                         !.called = called,
                         !.wrote = wrote,
                         !.overwrote = wrote \cap DOMAIN data[Shared],
                         !.result = IF failing = {}
                                    THEN [k \in keys |-> Result(dsk, k)]
                                    ELSE <<>>,
                         !.error = IF failing = {} THEN None
                                   ELSE "KeyError"]]
        /\ UNCHANGED <<optimizations, saved, last, raised>>
        /\ UNCHANGED <<keyvars, encoding, auxvars>>

\* the engine evaluates the graph the process has rewritten
Run(p) ==
    /\ passes[p].phase = "rewritten"
    /\ \E ran \in Runs(passes[p].dsk, passes[p].keys,
                       Failing(passes[p].dsk, passes[p].keys)) :
          Engine(p, passes[p].dsk, passes[p].keys, ran,
                 Failing(passes[p].dsk, passes[p].keys))

\* compute() has returned or raised, and the process has gone on
Finish(p) ==
    /\ passes[p].phase \in {"done", "failed"}
    /\ passes' = [passes EXCEPT ![p] = NoPass]
    /\ UNCHANGED <<storevars, keyvars, encoding, auxvars>>

\* something else that holds the mapping deletes an entry: del data[key]
Remove(key) ==
    /\ key \in DOMAIN data[Shared]
    /\ data' = [data EXCEPT
                   ![Shared] = [k \in DOMAIN data[Shared] \ {key} |->
                                   data[Shared][k]]]
    /\ UNCHANGED <<optimizations, saved, counter, last, raised>>
    /\ UNCHANGED <<keyvars, encoding, passes, auxvars>>

NextRace ==
    \/ \E p \in Procs, save \in BOOLEAN, key \in Keys, order \in Orders :
          Rewrite(p, save, {key}, order)
    \/ \E p \in Procs : Run(p)
    \/ \E p \in Procs : Finish(p)
    \/ \E key \in TaskKeys : Remove(key)

SpecRace == Init /\ [][NextRace]_vars

---------------------------------------------------------------------------
(* A process whose tasks may raise.  The function of a task raises          *)
(* RuntimeError, as uncomputable_task does; the engine ends compute() with  *)
(* that error.                                                              *)

\* the engine evaluates the graph the process has rewritten and the
\* function of the task of key raises: the nodes in ran were evaluated
\* before, the function raised before it counted its call, and the save
\* tuple around it is not evaluated
Broken(p, dsk, ran, key) ==
    LET called == {k \in ran : Computation(dsk[k]).head # "load"}
        wrote == {k \in ran :
                     \E target \in SaveTargets(dsk[k]) :
                         Primary(target) = Shared}
    IN  /\ "a" \in called => counter < MaxCalls
        /\ counter' = IF "a" \in called THEN counter + 1 ELSE counter
        /\ data' = [data EXCEPT
                       ![Shared] = SetItem(data[Shared], wrote, dsk)]
        /\ passes' = [passes EXCEPT ![p] =
               [@ EXCEPT !.phase = "failed",
                         !.called = called \cup {key},
                         !.wrote = wrote,
                         !.overwrote = wrote \cap DOMAIN data[Shared],
                         !.error = "RuntimeError"]]
        /\ UNCHANGED <<optimizations, saved, last, raised>>
        /\ UNCHANGED <<keyvars, encoding, auxvars>>

Fail(p, key) ==
    /\ passes[p].phase = "rewritten"
    /\ key \in Reachable(passes[p].dsk, passes[p].keys, {})
    /\ Computation(passes[p].dsk[key]).head # "load"
    /\ Failing(passes[p].dsk, passes[p].keys) = {}
    /\ \E ran \in Runs(passes[p].dsk, passes[p].keys, {key}) :
          Broken(p, passes[p].dsk, ran, key)

NextFail ==
    \/ \E save \in BOOLEAN, key \in Keys, order \in Orders :
          Rewrite("p1", save, {key}, order)
    \/ Run("p1")
    \/ \E key \in TaskKeys : Fail("p1", key)
    \/ Finish("p1")
    \/ \E key \in TaskKeys : Remove(key)

SpecFail == Init /\ [][NextFail]_vars

---------------------------------------------------------------------------
(* The target-based variant: computes inside Save() and Load() *)

\* the program stores a result in the target of a task: target.save(result)
TargetSave(key, result) ==
    /\ ~targets.run.valid
    /\ targets' = [targets EXCEPT
                      !.memory = DictTarget_save(targets.memory, key, result)]
    /\ UNCHANGED <<storevars, keyvars, encoding, passes, membership>>

\* the program removes the target of a task: target.remove()
TargetRemove(key) ==
    /\ ~targets.run.valid
    /\ complete(targets.memory, key)
    /\ targets' = [targets EXCEPT
                      !.memory = DictTarget_remove(targets.memory, key)]
    /\ UNCHANGED <<storevars, keyvars, encoding, passes, membership>>

\* collection.compute() inside `with Save():` or `with Load():`, the tasks
\* in with having a target: Load rewrites the graph, the engine evaluates
\* it, and Save is called back after every task
TargetCompute(mode, keys, with) ==
    /\ ~targets.run.valid
    /\ LET graph == cull(UserGraph([k \in TaskKeys |-> FALSE]), keys)
           dsk == IF mode = "Load"
                  THEN _optimize(targets.memory, graph, keys, with)
                  ELSE graph
       IN  targets' =
               [memory |-> IF mode = "Save"
                           THEN _posttask(targets.memory, dsk,
                                          Reachable(dsk, keys, {}), with)
                           ELSE targets.memory,
                run |-> [valid |-> TRUE, mode |-> mode, keys |-> keys,
                         with |-> with, before |-> targets.memory,
                         graph |-> graph, dsk |-> dsk]]
    /\ UNCHANGED <<storevars, keyvars, encoding, passes, membership>>

\* compute() has returned
TargetReturn ==
    /\ targets.run.valid
    /\ targets' = [targets EXCEPT !.run = NoTargetRun]
    /\ UNCHANGED <<storevars, keyvars, encoding, passes, membership>>

NextTarget ==
    \/ \E key \in TaskKeys, result \in Results : TargetSave(key, result)
    \/ \E key \in TaskKeys : TargetRemove(key)
    \/ \E mode \in {"Save", "Load"}, key \in Keys, with \in SUBSET TaskKeys :
          TargetCompute(mode, {key}, with)
    \/ TargetReturn

SpecTarget == Init /\ [][NextTarget]_vars

---------------------------------------------------------------------------
(* A process that computes against the store and tests it for membership *)

\* `item in storage` is evaluated; held tells whether the data of the
\* storage holds the key of the item at that moment
Test(self, item) ==
    /\ ~membership.valid
    /\ LET out == Storage_contains(self, item)
       IN  membership' = [valid |-> TRUE, self |-> self, item |-> <<item>>,
                          held |-> Contains(self, item.key),
                          raised |-> out.raised,
                          value |-> IF out.raised = None
                                    THEN <<out.value>> ELSE <<>>]
    /\ UNCHANGED <<storevars, keyvars, encoding, passes, targets>>

\* the outcome of the test has been used
Tested ==
    /\ membership.valid
    /\ membership' = NoTest
    /\ UNCHANGED <<storevars, keyvars, encoding, passes, targets>>

NextContains ==
    \/ \E save \in BOOLEAN, key \in Keys, order \in Orders :
          Rewrite("p1", save, {key}, order)
    \/ Run("p1")
    \/ Finish("p1")
    \/ \E key \in TaskKeys : Remove(key)
    \/ \E self \in {Shared, Chain}, item \in Items : Test(self, item)
    \/ Tested

SpecContains == Init /\ [][NextContains]_vars

---------------------------------------------------------------------------
(* Vocabulary of the properties *)

\* the open scopes whose optimizers are in force: a scope entered with
\* nested=False hides the ones around it
RECURSIVE ActiveFrom(_, _)
ActiveFrom(frames, i) ==
    IF i = 0 THEN 1
    ELSE IF ~frames[i].nested THEN i
    ELSE ActiveFrom(frames, i - 1)

Active == SubSeq(saved, ActiveFrom(saved, Len(saved)), Len(saved))

\* the compute observed in last ran inside exactly one scope: storage(save=s)
SingleScope(storage, s) ==
    /\ last.valid
    /\ Len(saved) = 1
    /\ saved[1].self = storage
    /\ saved[1].save = s

\* the observed compute was of the counting task alone, declared save=t
CounterRun(t) ==
    /\ last.valid
    /\ last.keys = {"a"}
    /\ last.graph["a"].save = t

Stored(storage, key) == key \in DOMAIN last.before[storage]

\* the bytes the default encoder produces for a value
Blob(value) == <<"zstandard", <<"cloudpickle", value>>>>

---------------------------------------------------------------------------
(* Properties *)

\* C1: in a run of one task identity inside storage(save=s), the task
\* declared save=t, the function body executes exactly when no entry for
\* the identity is stored at the start of the run or t is false.
C1_BodyRunsIffNotStoredOrNotSaved ==
    \A storage \in Storages, s \in BOOLEAN, t \in BOOLEAN :
        (SingleScope(storage, s) /\ CounterRun(t)) =>
            LET runs == ~Stored(storage, "a") \/ ~t
            IN  /\ ("a" \in last.called) <=> runs
                /\ counter = last.calls + (IF runs THEN 1 ELSE 0)

\* a run with the entry stored and t true: the body is not executed
C1_Witness ==
    \E storage \in Storages, s \in BOOLEAN :
        /\ SingleScope(storage, s) /\ CounterRun(TRUE)
        /\ Stored(storage, "a")
        /\ counter = last.calls
        /\ counter = 2

\* C2: a run returns the stored value whenever an entry exists at the start
\* of the run and t is true; in every other run it returns the value
\* freshly computed by that run.
C2_ReturnsStoredOrFresh ==
    \A storage \in Storages, s \in BOOLEAN, t \in BOOLEAN :
        (SingleScope(storage, s) /\ CounterRun(t)) =>
            IF Stored(storage, "a") /\ t
            THEN Blob(last.result["a"]) = last.before[storage]["a"]
            ELSE last.result["a"] = last.calls + 1

\* the stored value 1 is returned although a fresh computation would give 3
C2_Witness ==
    \E storage \in Storages, s \in BOOLEAN :
        /\ SingleScope(storage, s) /\ CounterRun(TRUE)
        /\ Stored(storage, "a")
        /\ last.calls = 2
        /\ last.result["a"] = 1

\* C3: in a run (s, t) of one task identity the store gains the entry of
\* the identity exactly when it had none and both s and t are true, and
\* nothing else changes: from the empty store, there is no entry until the
\* first run with s and t true and exactly one entry from then on.
C3_EntryAppearsWithFirstSavingRun ==
    \A storage \in Storages, s \in BOOLEAN, t \in BOOLEAN :
        (SingleScope(storage, s) /\ CounterRun(t)) =>
            /\ DOMAIN data[storage] =
                  DOMAIN last.before[storage]
                     \cup (IF s /\ t THEN {"a"} ELSE {})
            /\ Cardinality(DOMAIN data[storage] \cap {"a"}) =
                  IF Stored(storage, "a") \/ (s /\ t) THEN 1 ELSE 0

\* the first run with both flags true, after a run that did not save
C3_Witness ==
    \E storage \in Storages :
        /\ SingleScope(storage, TRUE) /\ CounterRun(TRUE)
        /\ last.before[storage] = <<>>
        /\ last.calls = 1
        /\ DOMAIN data[storage] = {"a"}

\* C4: once written, an entry is never overwritten by a later pass: every
\* entry present at the start of a compute is still there with the same
\* bytes, and a new entry of a requested key holds the value this run
\* computed, so the entry keeps the result of the first computation.
C4_EntryNeverOverwritten ==
    last.valid =>
        \A storage \in Storages :
            /\ \A key \in DOMAIN last.before[storage] :
                  /\ key \in DOMAIN data[storage]
                  /\ data[storage][key] = last.before[storage][key]
            /\ \A key \in DOMAIN data[storage] \ DOMAIN last.before[storage] :
                  /\ key \in last.called
                  /\ key \in last.keys =>
                        data[storage][key] = Blob(last.result[key])

\* a second save-enabled pass over the entry written by the first
\* computation, after the counter has moved on
C4_Witness ==
    \E storage \in Storages :
        /\ SingleScope(storage, TRUE) /\ CounterRun(TRUE)
        /\ Stored(storage, "a")
        /\ data[storage]["a"] = Blob(1)
        /\ counter = 2

\* C5: a compute inside a load-only scope, with no save-enabled scope
\* active, leaves the contents of every store unchanged, whatever the graph
\* and the save flags of the tasks.
C5_LoadOnlyScopeWritesNothing ==
    (/\ last.valid
     /\ Active # <<>>
     /\ \A i \in 1..Len(Active) : ~Active[i].save) =>
        data = last.before

\* a load-only run of the graph of c whose tasks are declared save=True and
\* are computed, not loaded
C5_Witness ==
    /\ last.valid
    /\ Active # <<>>
    /\ \A i \in 1..Len(Active) : ~Active[i].save
    /\ last.keys = {"c"}
    /\ last.graph["a"].save /\ last.graph["b"].save
    /\ {"a", "b"} \subseteq last.called
    /\ \E storage \in Storages : data[storage] # <<>>

\* some active scope's storage held the key when the compute started
StoredInActive(key) ==
    \E i \in 1..Len(Active) : Stored(Active[i].self, key)

\* C6: for every stack of active scopes, a node that a load pass replaced
\* by a load is not evaluated and is not wrapped by any save pass, and its
\* execution writes to no store.  A requested task declared save=True whose
\* key an active scope's store holds is such a node.
C6_LoadedNodeNotEvaluatedNotSaved ==
    last.valid =>
        /\ \A key \in DOMAIN last.dsk :
              Computation(last.dsk[key]).head = "load" =>
                  /\ last.dsk[key].head = "load"
                  /\ key \notin last.called
                  /\ key = "a" => counter = last.calls
                  /\ \A storage \in Storages :
                        /\ Stored(storage, key) <=> key \in DOMAIN data[storage]
                        /\ Stored(storage, key) =>
                              data[storage][key] = last.before[storage][key]
        /\ \A key \in last.keys \cap TaskKeys :
              (last.graph[key].save /\ StoredInActive(key)) =>
                  last.dsk[key].head = "load"

\* two nested save-enabled scopes: the node is loaded by the outer scope's
\* load pass, and both save passes run after it
C6_Witness ==
    /\ last.valid
    /\ Len(saved) = 2
    /\ saved[1].save /\ saved[2].save /\ saved[2].nested
    /\ saved[1].self # saved[2].self
    /\ last.keys = {"a"}
    /\ last.dsk["a"].head = "load"
    /\ last.dsk["a"].self = saved[1].self
    /\ ~Stored(saved[2].self, "a")

\* C7: if task b depends on task a and b's key is stored, the rewritten
\* graph for the requested output b has no node for a; the rewritten graph
\* holds exactly the keys reachable from the requested keys.
C7_LoadedNodePrunesDependencies ==
    last.valid =>
        /\ DOMAIN last.dsk = Reachable(last.dsk, last.keys, {})
        /\ (/\ last.keys = {"b"}
            /\ last.graph["b"].save
            /\ StoredInActive("b")) =>
               /\ DOMAIN last.dsk = {"b"}
               /\ "a" \notin last.called
               /\ counter = last.calls

\* b is requested and loaded: the input graph had a, the rewritten has not
C7_Witness ==
    /\ last.valid
    /\ last.keys = {"b"}
    /\ DOMAIN last.graph = {"a", "b"}
    /\ last.dsk["b"].head = "load"
    /\ DOMAIN last.dsk = {"b"}
    /\ ~last.graph["a"].save

\* the case of C8: outer(save=True) is entered, then inner(save=True), and
\* the persisted counting task, stored in inner's store only, is computed
InnerOnly(outer, inner) ==
    /\ CounterRun(TRUE)
    /\ Len(saved) = 2
    /\ saved[1].self = outer /\ saved[1].save
    /\ saved[2].self = inner /\ saved[2].save /\ saved[2].nested
    /\ Stored(inner, "a")
    /\ ~Stored(outer, "a")

\* C8 as stated: with S1(save=True) entered and then S2(save=True), a
\* persisted task present only in S2 is loaded from S2 and a copy is
\* written into S1.
C8_Original ==
    InnerOnly("S1", "S2") =>
        /\ Blob(last.result["a"]) = last.before["S2"]["a"]
        /\ "a" \in DOMAIN data["S1"]

\* C8 amended: the task is loaded from S2 and nothing is written into S1
\* (a loaded node is wrapped by no save pass); S1 keeps having no entry, so
\* a load-only pass against S1 alone computes the task.
C8_LoadedFromInnerNotCopied ==
    /\ InnerOnly("S1", "S2") =>
          /\ Blob(last.result["a"]) = last.before["S2"]["a"]
          /\ "a" \notin last.called
          /\ data = last.before
          /\ "a" \notin DOMAIN data["S1"]
    /\ (SingleScope("S1", FALSE) /\ CounterRun(TRUE) /\ ~Stored("S1", "a")) =>
          /\ "a" \in last.called
          /\ last.result["a"] = last.calls + 1

C8_Witness == InnerOnly("S1", "S2")

\* C9: the active optimizer sequence never has a load optimizer after a
\* save optimizer.
C9_LoadsBeforeSaves ==
    \A i, j \in 1..Len(optimizations) :
        i < j => ~(/\ optimizations[i].method = "optimize_save"
                   /\ optimizations[j].method = "optimize_load")

\* two nested save-enabled scopes: two loads, then two saves
C9_Witness ==
    /\ Len(saved) = 2
    /\ saved[1].save /\ saved[2].save /\ saved[2].nested
    /\ Len(optimizations) = 4
    /\ optimizations[2].method = "optimize_load"
    /\ optimizations[3].method = "optimize_save"

\* the innermost open scope
Top == saved[Len(saved)]

HasSave(opts) == \E i \in 1..Len(opts) : opts[i].method = "optimize_save"

\* C10: entering a nested save-enabled scope while the active sequence
\* contains a save optimizer yields: the new load, the existing optimizers
\* before the first existing save, the new save, the first existing save
\* and everything after it.
C10_SaveInsertedBeforeFirstSave ==
    (saved # <<>> /\ Top.nested /\ Top.save /\ HasSave(Top.old)) =>
        \E i \in 1..Len(Top.old) :
            /\ Top.old[i].method = "optimize_save"
            /\ \A j \in 1..(i - 1) : Top.old[j].method # "optimize_save"
            /\ optimizations =
                  <<Method("optimize_load", Top.self)>>
                     \o SubSeq(Top.old, 1, i - 1)
                     \o <<Method("optimize_save", Top.self)>>
                     \o SubSeq(Top.old, i, Len(Top.old))

\* a save-enabled scope entered inside a save-enabled scope of the other
\* storage
C10_Witness ==
    /\ saved # <<>> /\ Top.nested /\ Top.save
    /\ Len(Top.old) = 2
    /\ Top.old[1].method = "optimize_load"
    /\ Top.old[2].method = "optimize_save"
    /\ Top.old[2].self # Top.self
    /\ Len(optimizations) = 4

\* C11: entering a nested save-enabled scope while the active sequence
\* contains no save optimizer yields: the new scope's load, all existing
\* optimizers in their previous order, the new scope's save as last element.
C11_SaveAppendedWhenNoSave ==
    (saved # <<>> /\ Top.nested /\ Top.save /\ ~HasSave(Top.old)) =>
        /\ Len(optimizations) = Len(Top.old) + 2
        /\ optimizations[1] = Method("optimize_load", Top.self)
        /\ \A j \in 1..Len(Top.old) : optimizations[j + 1] = Top.old[j]
        /\ optimizations[Len(optimizations)] =
              Method("optimize_save", Top.self)

\* a save-enabled scope entered inside a load-only scope of the other
\* storage
C11_Witness ==
    /\ saved # <<>> /\ Top.nested /\ Top.save
    /\ Len(Top.old) = 1
    /\ Top.old[1].method = "optimize_load"
    /\ Top.old[1].self # Top.self
    /\ Len(optimizations) = 3

\* the sequence obtained by entering the scopes of frames in order, from
\* the empty configuration
RECURSIVE Replay(_)
Replay(frames) ==
    IF frames = <<>>
    THEN <<>>
    ELSE LET f == frames[Len(frames)]
         IN  ScopeOptimizations(f.self, f.save, f.nested,
                                Replay(SubSeq(frames, 1, Len(frames) - 1)))

\* C12: for any properly nested sequence of scope entries and exits, after
\* a scope exits the active optimizer sequence is exactly the one that was
\* active immediately before that scope was entered, both when the body
\* finished normally and when it raised an error, and the error still
\* propagates: the active sequence is always the one the scopes still open
\* build, and an exit leaves the error as it is.
C12_ExitRestoresPrevious ==
    /\ [](optimizations = Replay(saved))
    /\ [][Len(saved') < Len(saved) =>
             /\ optimizations' = Top.old
             /\ optimizations' = Replay(saved')
             /\ raised' = raised]_vars

\* an error raised inside two scopes has left the inner one: the outer
\* scope's own sequence is active again and the error is still propagating
C12_Witness ==
    /\ raised = 2
    /\ Len(saved) = 1
    /\ saved[1].save
    /\ optimizations = <<Method("optimize_load", saved[1].self),
                         Method("optimize_save", saved[1].self)>>

\* C13: inside a scope entered with nested=False the active optimizer
\* sequence is exactly that scope's own load (followed by its own save when
\* save=True), whatever scopes were active before; a task stored only in an
\* outer scope's store is not loaded there but computed; and the outer
\* sequence is active again after the exit.
C13_NotNestedIgnoresOuter ==
    /\ []((saved # <<>> /\ ~Top.nested) =>
            /\ optimizations =
                  <<Method("optimize_load", Top.self)>>
                     \o (IF Top.save
                         THEN <<Method("optimize_save", Top.self)>>
                         ELSE <<>>)
            /\ last.valid =>
                  \A key \in last.keys \cap TaskKeys :
                      ~Stored(Top.self, key) =>
                          /\ last.dsk[key].head # "load"
                          /\ key \in last.called)
    /\ [][(saved # <<>> /\ ~Top.nested /\ Len(saved') < Len(saved)) =>
             optimizations' = Top.old]_vars

\* the counting task is stored in the outer scope's store only and is
\* computed inside an inner scope of the other storage entered with
\* nested=False
C13_Witness ==
    /\ CounterRun(TRUE)
    /\ Len(saved) = 2
    /\ ~saved[2].nested
    /\ saved[1].self # saved[2].self
    /\ Stored(saved[1].self, "a")
    /\ ~Stored(saved[2].self, "a")
    /\ "a" \in last.called
    /\ Len(saved[2].old) = 2

\* the compute observed in last ran inside from_chain(S1, S2)(save=s) alone
ChainRun(s) ==
    /\ last.valid
    /\ Len(saved) = 1
    /\ saved[1].self = Chain
    /\ saved[1].save = s

\* C14: for the chained storage built from S1, S2, the existence check of a
\* key is true exactly when S1 or S2 contains it (the task is then loaded,
\* otherwise computed), and load returns the bytes held by the first of S1,
\* S2 that contains the key, also when S2 holds a different value under it.
C14_ChainFirstHit ==
    \A s \in BOOLEAN :
        ChainRun(s) =>
            \A key \in last.keys \cap TaskKeys :
                last.graph[key].save =>
                    LET held == Stored("S1", key) \/ Stored("S2", key)
                    IN  /\ (last.dsk[key].head = "load") <=> held
                        /\ (key \in last.called) <=> ~held
                        /\ held =>
                              Blob(last.result[key]) =
                                  IF Stored("S1", key)
                                  THEN last.before["S1"][key]
                                  ELSE last.before["S2"][key]

\* both stores hold the counting task, with different values: S1's is
\* returned
C14_Witness ==
    \E s \in BOOLEAN :
        /\ ChainRun(s) /\ CounterRun(TRUE)
        /\ Stored("S1", "a") /\ Stored("S2", "a")
        /\ last.before["S1"]["a"] # last.before["S2"]["a"]
        /\ Blob(last.result["a"]) = last.before["S1"]["a"]

\* C15: a compute under a scope of the chained storage built from S1, S2
\* writes every entry into S1's mapping and leaves S2's mapping unchanged.
C15_ChainWritesFirstOnly ==
    \A s \in BOOLEAN :
        ChainRun(s) =>
            /\ data["S2"] = last.before["S2"]
            /\ DOMAIN data["S1"] =
                  DOMAIN last.before["S1"]
                     \cup (IF s
                           THEN {key \in last.called \cap TaskKeys :
                                    last.graph[key].save}
                           ELSE {})
            /\ \A key \in DOMAIN last.before["S1"] :
                  data["S1"][key] = last.before["S1"][key]

\* S2 already holds an entry, and the chained scope writes a new one to S1
C15_Witness ==
    /\ ChainRun(TRUE)
    /\ last.before["S2"] # <<>>
    /\ last.before["S1"] = <<>>
    /\ data["S1"] # <<>>
    /\ DOMAIN data["S1"] \cap DOMAIN data["S2"] = {}

\* from_chain(S1, S2)(save=s) has just been entered and is about to compute
ChainReady(s) ==
    /\ ~last.valid
    /\ raised = 0
    /\ Len(saved) = 1
    /\ saved[1].self = Chain
    /\ saved[1].save = s

\* the optimizations inside: with S1(save=s): with S2(save=s): ...
NestedOptimizations(s) ==
    ScopeOptimizations("S2", s, TRUE, ScopeOptimizations("S1", s, TRUE, <<>>))

\* what compute() of key returns under opts, for the graph built with flags
Returned(opts, flags, key) ==
    Result(Optimize(opts, cull(UserGraph(flags), {key}), {key}), key)

\* S1 and S2 hold the same bytes under every key both hold
Agree ==
    \A key \in DOMAIN data["S1"] \cap DOMAIN data["S2"] :
        data["S1"][key] = data["S2"][key]

\* C16 as stated: computing under from_chain(S1, S2)(save=s) and under the
\* nested scopes S1(save=s) then S2(save=s) returns the same result, for
\* both values of s and for any contents of the two stores.
C16_Original ==
    \A s \in BOOLEAN :
        ChainReady(s) =>
            \A flags \in SaveFlags, key \in Keys :
                Returned(optimizations, flags, key) =
                    Returned(NestedOptimizations(s), flags, key)

\* C16 amended: the two return the same result whenever S1 and S2 hold the
\* same bytes under every key both hold; when both hold the key of a
\* requested persisted task, the chained storage returns S1's value and the
\* nested scopes return S2's.
C16_ChainEqualsNestedWhenStoresAgree ==
    \A s \in BOOLEAN :
        ChainReady(s) =>
            \A flags \in SaveFlags, key \in Keys :
                /\ Agree =>
                      Returned(optimizations, flags, key) =
                          Returned(NestedOptimizations(s), flags, key)
                /\ (/\ key \in TaskKeys /\ flags[key]
                    /\ key \in DOMAIN data["S1"] \cap DOMAIN data["S2"]) =>
                      /\ Blob(Returned(optimizations, flags, key)) =
                            data["S1"][key]
                      /\ Blob(Returned(NestedOptimizations(s), flags, key)) =
                            data["S2"][key]

\* each store holds one of the two tasks, as in the test of the combined
\* storages
C16_Witness ==
    /\ ChainReady(TRUE)
    /\ DOMAIN data["S1"] = {"b"}
    /\ DOMAIN data["S2"] = {"a"}
    /\ counter = 1

\* the parameters a call passes a value for, and the value it passes
Supplied(call) ==
    {Parameters(call.func)[i] : i \in 1..Len(call.args)}
        \cup DOMAIN call.kwargs

Passed(call, n) ==
    LET i == CHOOSE j \in 1..Len(Parameters(call.func)) :
                 Parameters(call.func)[j] = n
    IN  IF i <= Len(call.args) THEN call.args[i] ELSE call.kwargs[n]

\* call d1 passes its last positional argument by position, call d2 passes
\* the same value for the same parameter by keyword, the rest is the same
SameButKeyword(d1, d2) ==
    /\ d1.func = d2.func
    /\ Len(d1.args) = Len(d2.args) + 1
    /\ SubSeq(d1.args, 1, Len(d2.args)) = d2.args
    /\ LET n == Parameters(d1.func)[Len(d1.args)]
       IN  /\ n \in DOMAIN d2.kwargs
           /\ d2.kwargs[n] = d1.args[Len(d1.args)]
           /\ DOMAIN d1.kwargs = DOMAIN d2.kwargs \ {n}
           /\ \A m \in DOMAIN d1.kwargs : d1.kwargs[m] = d2.kwargs[m]

\* C17: for every task and every argument value, invoking the task with the
\* argument passed positionally and with the same argument passed by
\* keyword yields the same key.
C17_PositionalOrKeyword ==
    \A d1 \in delayed, d2 \in delayed :
        SameButKeyword(d1, d2) => d1.key = d2.key

\* func("1") and func(x="1") have both been called
C17_Witness ==
    \E d1 \in delayed, d2 \in delayed :
        /\ SameButKeyword(d1, d2)
        /\ d1.func = "func"
        /\ d1.args = <<"1">>
        /\ d2.args = <<>>

\* every declared parameter has a value, passed or declared as default
Effective(call) ==
    [n \in Range(Parameters(call.func)) |->
        IF n \in Supplied(call)
        THEN Passed(call, n)
        ELSE Defaults(call.func)[n]]

\* C18 as stated: two invocations of the same task in which every declared
\* parameter ends up with the same value produce the same identity, whether
\* a value was passed explicitly or taken from the declared default.
C18_Original ==
    \A d1 \in delayed, d2 \in delayed :
        (d1.func = d2.func /\ Effective(d1) = Effective(d2)) =>
            d1.key = d2.key

\* the two calls pass the same value for every parameter not excluded
AgreeButExcluded(d1, d2) ==
    /\ d1.func = d2.func
    /\ Excluded(d1.func) # <<>>
    /\ Range(Excluded(d1.func)) \subseteq Supplied(d1) \cap Supplied(d2)
    /\ \A n \in Range(Parameters(d1.func)) \ Range(Excluded(d1.func)) :
          /\ n \in Supplied(d1) \cap Supplied(d2)
          /\ Passed(d1, n) = Passed(d2, n)

\* C19: with parameter y excluded from hashing, two invocations that agree
\* on every other argument yield the same key for any two values of y,
\* including values of y whose hashing would raise, however y is passed: a
\* call that fits the signature, passes y and whose other arguments can be
\* hashed derives a key, and two such calls that agree but for y have the
\* same key.
C19_ExcludedNotHashed ==
    /\ (/\ invocation.valid
        /\ Excluded(invocation.func) # <<>>
        /\ bind(invocation.func, invocation.args,
                invocation.kwargs).raised = None
        /\ Range(Excluded(invocation.func)) \subseteq Supplied(invocation)
        /\ \A n \in Supplied(invocation) \ Range(Excluded(invocation.func)) :
              Passed(invocation, n) # Unhashable) =>
           /\ invocation.raised = None
           /\ \E d \in delayed :
                 /\ d.key = invocation.key
                 /\ d.args = invocation.args
                 /\ d.kwargs = invocation.kwargs
    /\ \A d1 \in delayed, d2 \in delayed :
          AgreeButExcluded(d1, d2) => d1.key = d2.key

\* func("1", u) and func("1", y="1") have both been called
C19_Witness ==
    \E d1 \in delayed, d2 \in delayed :
        /\ AgreeButExcluded(d1, d2)
        /\ d1.args = <<"1", Unhashable>>
        /\ d2.args = <<"1">>
        /\ Passed(d2, "y") = "1"

\* the call fits the signature and passes a value that cannot be hashed for
\* a parameter that is not excluded
UnhashableArgument(call) ==
    /\ bind(call.func, call.args, call.kwargs).raised = None
    /\ \E n \in Supplied(call) \ Range(Excluded(call.func)) :
          Passed(call, n) = Unhashable

\* C20: when a non-excluded argument cannot be hashed, the invocation of
\* the task itself fails with that error at key-derivation time: no key is
\* produced, no graph node is created and nothing is submitted for
\* execution.
C20_UnhashableFailsAtCall ==
    /\ [][(~invocation.valid /\ invocation'.valid
              /\ UnhashableArgument(invocation')) =>
             /\ invocation'.raised = "RuntimeError"
             /\ invocation'.key = <<>>
             /\ delayed' = delayed
             /\ submitted' = submitted]_vars
    /\ [](\A d \in delayed : ~UnhashableArgument(d))
    /\ [](submitted \subseteq {d.key : d \in delayed})

\* func(u, "1") of the task that excludes y has just failed, next to
\* Delayed objects of other calls
C20_Witness ==
    /\ invocation.valid
    /\ invocation.func = "func_exclude"
    /\ invocation.args = <<Unhashable, "1">>
    /\ invocation.raised = "RuntimeError"
    /\ delayed # {}
    /\ submitted # {}

\* C21 as stated: for every combination of enabled and disabled stages (a
\* tuple of generic encoders of any length, serializer, compressor,
\* encrypter), each stage being an inverse pair, decode(encode(v)) equals v.
C21_Original ==
    encoding.phase = "decoded" => encoding.result = encoding.value

\* C22 as stated: decode applies the inverse stages in exactly the reverse
\* of the order encode applied them: decrypt, decompress, deserialize, then
\* the generic encoders' decode operations in reverse declared order.
C22_Original ==
    encoding.phase = "decoded" =>
        /\ Len(encoding.decoded) = Len(encoding.encoded)
        /\ \A i \in 1..Len(encoding.decoded) :
              /\ ~encoding.decoded[i].forward
              /\ encoding.decoded[i].stage =
                    encoding.encoded[Len(encoding.encoded) + 1 - i].stage

\* a stage of the class is set and lacks one of its two operations
Misconfigured(cls) ==
    \/ /\ cls.kind = "DefaultEncoder"
       /\ cls.encoders.set
       /\ \E i \in 1..Len(cls.encoders.items) :
             cls.encoders.items[i].methods # {"encode", "decode"}
    \/ cls.serializer.name \notin {None, "cloudpickle"}
    \/ cls.compressor.name \notin {None, "zstandard"}
    \/ cls.encrypter.name \notin {None, "encrypter"}

\* C23: declaring an encoding configuration or task type whose serializer,
\* compressor, encrypter or generic encoder is set but does not provide
\* both operations of its pair fails with a type error at declaration
\* time, before any value is encoded or decoded; a stage set to none is
\* accepted.
C23_MisconfiguredStageRejected ==
    encoding.phase # "none" =>
        LET cls == encoding.cls[1]
        IN  /\ Misconfigured(cls) =>
                  /\ encoding.phase = "rejected"
                  /\ encoding.raised = "TypeError"
                  /\ encoding.encoded = <<>> /\ encoding.bytes = <<>>
                  /\ encoding.decoded = <<>> /\ encoding.result = <<>>
            /\ (~Misconfigured(cls)
                   /\ (cls.kind = "DefaultEncoder" /\ cls.encoders.set
                          => cls.encoders.tuple)) =>
                  encoding.phase # "rejected"
            /\ encoding.phase # "rejected" => encoding.raised = None

\* a task type whose compressor has no compress, its other stages none
C23_Witness ==
    /\ encoding.phase = "rejected"
    /\ encoding.cls[1].kind = "Task"
    /\ encoding.cls[1].compressor.name = "c0"
    /\ encoding.cls[1].serializer = NoStage
    /\ encoding.cls[1].encrypter = NoStage
    /\ ~encoding.cls[1].encoders.set

\* the stores the save tuples around the node of key write to
Targets(key) == {Primary(target) : target \in SaveTargets(last.dsk[key])}

\* the value of a task's function in the compute observed in last
Value(key) == IF key = "a" THEN last.calls + 1 ELSE 0

\* C24: executing a compute-then-save node evaluates the original
\* computation exactly once, writes encode(value) under the node's key to
\* the store of the scope exactly once and only after the value has been
\* computed (what is written is the encoding of the value computed, every
\* other store keeps what it had under the key), and the consumers of the
\* node receive the value, not its encoding.
C24_SaveNodeComputesWritesReturns ==
    last.valid =>
        \A key \in DOMAIN last.dsk :
            last.dsk[key].head = "save" =>
                /\ key \in last.called
                /\ key = "a" => counter = last.calls + 1
                /\ \A storage \in Storages :
                      IF storage \in Targets(key)
                      THEN /\ key \in DOMAIN data[storage]
                           /\ data[storage][key] = Blob(Value(key))
                      ELSE /\ key \in DOMAIN data[storage]
                                 <=> Stored(storage, key)
                           /\ Stored(storage, key) =>
                                 data[storage][key] = last.before[storage][key]
                /\ key \in last.keys => last.result[key] = Value(key)
                /\ (key = "a" /\ "c" \in last.keys) =>
                      last.result["c"] = Value("a")

\* add(a, b) is computed from a task that is computed and saved
C24_Witness ==
    /\ last.valid
    /\ last.keys = {"c"}
    /\ last.dsk["a"].head = "save"
    /\ Targets("a") = {"S1"}
    /\ ~Stored("S1", "a")
    /\ data["S1"]["a"] = Blob(last.calls + 1)
    /\ last.result["c"] = last.calls + 1

\* the node is a task declared save=True
Eligible(v) ==
    /\ v.head = "Task" \/ (v.head = "apply" /\ v.second = "Task")
    /\ v.save

\* C25: every node of the rewritten graph that is not a task with
\* save=True keeps exactly its original entry, also when a store of an
\* active scope holds an entry under the key of the node.
C25_OtherNodesKeepEntry ==
    last.valid =>
        \A key \in DOMAIN last.dsk :
            ~Eligible(last.graph[key]) => last.dsk[key] = last.graph[key]

\* a task declared save=False whose key the store of a saving scope holds
C25_Witness ==
    /\ last.valid
    /\ HasSave(optimizations)
    /\ \E key \in TaskKeys \cap DOMAIN last.dsk :
          /\ ~last.graph[key].save
          /\ StoredInActive(key)
          /\ last.dsk[key] = last.graph[key]

\* the process ends its compute() in this step
Ends(p) == passes[p].phase = "rewritten" /\ passes'[p].phase # "rewritten"

\* the nodes of the graph the process has rewritten
Nodes(p) == Reachable(passes[p].dsk, passes[p].keys, {})

\* the nodes of the process that the rewriting replaced by a load
Loads(p) == {key \in Nodes(p) : passes[p].dsk[key].head = "load"}

\* C26: every load node a rewriting pass emits refers to a key the store
\* of the scope held at the time of the pass; when the store still holds
\* what it held at the pass as the engine evaluates the graph, no load
\* fails with a missing key.
C26_LoadsReferToHeldKeys ==
    /\ [](\A p \in Procs :
             passes[p].phase # "idle" =>
                 \A key \in DOMAIN passes[p].dsk :
                     passes[p].dsk[key].head = "load" =>
                         /\ passes[p].dsk[key].self = Shared
                         /\ passes[p].dsk[key].lit = key
                         /\ key \in passes[p].held)
    /\ [][\A p \in Procs :
             (Ends(p) /\ passes[p].held \subseteq DOMAIN data[Shared]) =>
                 /\ passes'[p].phase = "done"
                 /\ passes'[p].error = None]_vars

\* a compute ended that loaded task a from the store
C26_Witness ==
    \E p \in Procs :
        /\ passes[p].phase = "done"
        /\ passes[p].keys = {"c"}
        /\ "a" \in Loads(p)
        /\ "a" \in passes[p].held
        /\ passes[p].called = {"c"}

C28_BothComputeBothWrite ==
    [][\A p \in Procs : \A key \in TaskKeys :
          (/\ Ends(p)
           /\ passes[p].save
           /\ passes[p].keys = {key}
           /\ key \notin passes[p].held
           /\ passes[p].held \subseteq DOMAIN data[Shared]) =>
              /\ passes'[p].phase = "done"
              /\ passes'[p].error = None
              /\ key \in passes'[p].called
              /\ key \in passes'[p].wrote
              /\ key = "a" => counter' = counter + 1
              /\ DOMAIN data'[Shared] \subseteq
                     DOMAIN data[Shared] \cup TaskKeys
              /\ key \in DOMAIN data'[Shared]
              /\ data'[Shared][key] =
                     Blob(IF key = "a" THEN counter + 1 ELSE 0)]_vars

\* both processes rewrote while the store did not hold a; p1 wrote first
\* and p2 wrote over it
C28_Witness ==
    /\ \A p \in Procs :
          /\ passes[p].phase = "done"
          /\ passes[p].save
          /\ passes[p].keys = {"a"}
          /\ "a" \notin passes[p].held
          /\ passes[p].called = {"a"}
          /\ passes[p].wrote = {"a"}
    /\ passes["p1"].overwrote = {}
    /\ passes["p2"].overwrote = {"a"}
    /\ DOMAIN data[Shared] = {"a"}
    /\ data[Shared]["a"] = Blob(passes["p2"].result["a"])

\* what the load pass of the process returns: the graph with a load in
\* place of every task the store held
LoadPassResult(p) ==
    [key \in DOMAIN passes[p].graph |->
        IF key \in TaskKeys \cap passes[p].held
        THEN LoadEntry(Shared, key, passes[p].graph[key])
        ELSE passes[p].graph[key]]

\* C29: the load pass and the save pass leave the graph they receive
\* unchanged: after the rewriting the graph given to the load pass is the
\* graph of the collection and the graph given to the save pass is what the
\* load pass returned; the task in a rewritten entry has the function and
\* the save flag it had.
C29_PassesCopyTheGraph ==
    \A p \in Procs :
        passes[p].phase # "idle" =>
            /\ passes[p].received[1] = passes[p].graph
            /\ Len(passes[p].received) = 2 =>
                  passes[p].received[2] =
                      Restrict(LoadPassResult(p), DOMAIN passes[p].received[2])
            /\ \A key \in DOMAIN passes[p].dsk :
                  /\ Computation(passes[p].dsk[key]).func =
                         passes[p].graph[key].func
                  /\ Computation(passes[p].dsk[key]).save =
                         passes[p].graph[key].save

\* a rewriting in which the load pass replaced a and the save pass wrapped b
C29_Witness ==
    \E p \in Procs :
        /\ passes[p].phase = "rewritten"
        /\ passes[p].keys = {"c"}
        /\ Len(passes[p].received) = 2
        /\ passes[p].received[1]["a"].head = "Task"
        /\ passes[p].received[2]["a"].head = "load"
        /\ passes[p].received[2]["b"].head = "apply"
        /\ passes[p].dsk["b"].head = "save"

\* C30: two rewriting passes with the same store content, the same graph,
\* the same requested keys and the same optimizer sequence produce the same
\* rewritten graph, whatever the order of the items of the graph each of
\* them visits.
C30_RewriteDeterministic ==
    \A p, q \in Procs :
        (/\ passes[p].phase # "idle" /\ passes[q].phase # "idle"
         /\ passes[p].held = passes[q].held
         /\ passes[p].graph = passes[q].graph
         /\ passes[p].keys = passes[q].keys
         /\ passes[p].save = passes[q].save) =>
            /\ DOMAIN passes[p].dsk = DOMAIN passes[q].dsk
            /\ \A key \in DOMAIN passes[p].dsk :
                  passes[p].dsk[key] = passes[q].dsk[key]

\* both processes have rewritten the graph of c against a store that held
\* a, and their graphs load a and wrap b
C30_Witness ==
    \A p \in Procs :
        /\ passes[p].phase = "rewritten"
        /\ passes[p].keys = {"c"}
        /\ passes[p].save
        /\ passes[p].held = {"a"}
        /\ passes[p].dsk["a"].head = "load"
        /\ passes[p].dsk["b"].head = "save"

\* C31 as stated: the membership test of a delayed task in a Storage
\* returns true exactly when the key of the task is in the data of the
\* store, that is exactly when a load of the key would succeed, and false
\* otherwise.
C31_Original ==
    (membership.valid /\ membership.item[1].type = "Delayed") =>
        /\ membership.raised = None
        /\ membership.value = <<membership.held>>

\* the storage of the most recently entered save-enabled active scope
RECURSIVE SavingScope(_)
SavingScope(i) ==
    IF i = 0 THEN None
    ELSE IF Active[i].save THEN Active[i].self
    ELSE SavingScope(i - 1)

\* C32: under any stack of scopes of which one at least is save-enabled, a
\* persisted task that is computed, not loaded, is wrapped by exactly one
\* save, that of the first save optimizer of the active sequence, which is
\* that of the most recently entered save-enabled scope; its value is
\* written to the store of that scope and every other store keeps what it
\* held under the key.
C32_OneSaveInnermostScope ==
    last.valid =>
        \A key \in DOMAIN last.dsk :
            (/\ Eligible(last.graph[key])
             /\ Computation(last.dsk[key]).head # "load"
             /\ SavingScope(Len(Active)) # None) =>
                /\ last.dsk[key].head = "save"
                /\ last.dsk[key].value[1] = last.graph[key]
                /\ last.dsk[key].self = SavingScope(Len(Active))
                /\ last.dsk[key].self =
                       optimizations[FirstSave(optimizations, 1)].self
                /\ key \in DOMAIN data[last.dsk[key].self]
                /\ data[last.dsk[key].self][key] = Blob(Value(key))
                /\ \A storage \in Storages \ {last.dsk[key].self} :
                      /\ key \in DOMAIN data[storage] <=> Stored(storage, key)
                      /\ Stored(storage, key) =>
                            data[storage][key] = last.before[storage][key]

\* S2(save=True) is entered inside S1(save=True) and the counting task is
\* computed: it is written to S2 and not to S1
C32_Witness ==
    /\ CounterRun(TRUE)
    /\ Len(saved) = 2
    /\ saved[1].self = "S1" /\ saved[1].save
    /\ saved[2].self = "S2" /\ saved[2].save /\ saved[2].nested
    /\ "a" \in last.called
    /\ last.dsk["a"].self = "S2"
    /\ "a" \in DOMAIN data["S2"]
    /\ "a" \notin DOMAIN data["S1"]

\* the storage of the most recently entered active scope whose store held
\* the key when the compute started
RECURSIVE LoadingScope(_, _)
LoadingScope(key, i) ==
    IF i = 0 THEN None
    ELSE IF Stored(Active[i].self, key) THEN Active[i].self
    ELSE LoadingScope(key, i - 1)

\* C33: when the key of a persisted task is in the stores of several nested
\* active scopes, also with different values, the node is the load from the
\* store of the most recently entered of these scopes, as the first load
\* optimizer that finds the key made it: the other load optimizers leave it
\* as it is, the task is not called and compute() returns the value that
\* store held.
C33_LoadedFromInnermostHolder ==
    last.valid =>
        \A key \in DOMAIN last.dsk :
            (Eligible(last.graph[key]) /\ StoredInActive(key)) =>
                /\ last.dsk[key] =
                       LoadEntry(LoadingScope(key, Len(Active)), key,
                                 last.graph[key])
                /\ key \notin last.called
                /\ key \in last.keys =>
                      last.result[key] =
                          decode(last.before[LoadingScope(key, Len(Active))][key])

\* S2 is entered inside S1, both hold the counting task with different
\* values, and the value of S2 is returned
C33_Witness ==
    /\ CounterRun(TRUE)
    /\ Len(saved) = 2
    /\ saved[1].self = "S1"
    /\ saved[2].self = "S2" /\ saved[2].nested
    /\ Stored("S1", "a") /\ Stored("S2", "a")
    /\ last.before["S1"]["a"] # last.before["S2"]["a"]
    /\ last.dsk["a"].head = "load"
    /\ last.dsk["a"].self = "S2"
    /\ last.result["a"] = decode(last.before["S2"]["a"])

\* the process starts a compute that asks for the task of key while the
\* store holds no entry under the key
Misses(p, key) ==
    /\ passes[p].phase = "idle"
    /\ passes'[p].phase = "rewritten"
    /\ passes'[p].keys = {key}
    /\ key \notin DOMAIN data[Shared]

\* a run that finds no entry under the key computes the task: its node is
\* not a load, and a compute that ends without error has called the task
ComputesAgain ==
    \A p \in Procs : \A key \in TaskKeys :
        /\ Misses(p, key) => Computation(passes'[p].dsk[key]).head # "load"
        /\ (/\ Ends(p)
            /\ passes'[p].phase = "done"
            /\ passes[p].keys = {key}
            /\ key \notin passes[p].held) =>
               key \in passes'[p].called

\* C34 as stated: when the computation of a persisted task raises inside a
\* save-enabled scope, no entry is written under its key and the store is
\* unchanged, so a later run finds no entry and computes the task again.
C34_Original ==
    [][/\ \A p \in Procs : \A key \in TaskKeys :
             (Fail(p, key) /\ passes[p].save) =>
                 /\ key \notin DOMAIN data'[Shared]
                 /\ data' = data
       /\ ComputesAgain]_vars

\* C34: when the computation of a persisted task raises inside a
\* save-enabled scope, no entry is written under its key nor under that of
\* a node that needs it, and every entry the store held is unchanged; the
\* tasks evaluated before it raised may have been written; a later run
\* finds no entry under the key and computes the task again.
C34_RaisingTaskNotSaved ==
    [][/\ \A p \in Procs : \A key \in TaskKeys :
             (Fail(p, key) /\ passes[p].save) =>
                 /\ key \notin DOMAIN data'[Shared]
                 /\ passes'[p].phase = "failed"
                 /\ passes'[p].error = "RuntimeError"
                 /\ \A k \in DOMAIN data[Shared] :
                       /\ k \in DOMAIN data'[Shared]
                       /\ data'[Shared][k] = data[Shared][k]
                 /\ \A k \in DOMAIN data'[Shared] \ DOMAIN data[Shared] :
                       /\ k \in TaskKeys
                       /\ key \notin Reachable(passes[p].dsk, {k}, {})
       /\ ComputesAgain]_vars

\* the function of task b raised in a save-enabled scope after task a had
\* been computed and saved: the store holds a and not b
C34_Witness ==
    /\ passes["p1"].phase = "failed"
    /\ passes["p1"].error = "RuntimeError"
    /\ passes["p1"].save
    /\ passes["p1"].keys = {"b"}
    /\ passes["p1"].called = {"a", "b"}
    /\ passes["p1"].wrote = {"a"}
    /\ passes["p1"].held = {}
    /\ DOMAIN data[Shared] = {"a"}

\* C35: in the rewritten graph a load node depends on no node (its key
\* argument is a literal), a compute-then-save node depends on exactly the
\* nodes its original computation depended on, and every key of the
\* rewritten graph is a key of the graph of the collection.
C35_RewrittenDependencies ==
    last.valid =>
        /\ DOMAIN last.dsk \subseteq DOMAIN last.graph
        /\ \A key \in DOMAIN last.dsk :
              /\ last.dsk[key].head = "load" =>
                    /\ Dependencies(last.dsk[key]) = {}
                    /\ last.dsk[key].lit = key
              /\ last.dsk[key].head = "save" =>
                    /\ Dependencies(last.dsk[key]) =
                           Dependencies(last.graph[key])
                    /\ last.dsk[key].lit = key

\* add(a, b) is computed with a loaded and b computed and saved: b keeps
\* its dependency on a
C35_Witness ==
    /\ last.valid
    /\ last.keys = {"c"}
    /\ DOMAIN last.dsk = {"a", "b", "c"}
    /\ last.dsk["a"].head = "load"
    /\ Dependencies(last.graph["b"]) = {"a"}
    /\ last.dsk["b"].head = "save"
    /\ Dependencies(last.dsk["b"]) = {"a"}

\* C36 as stated: for a task whose hasher excludes parameter y, the
\* derivation of the key succeeds when y is not supplied at the call, y
\* taking its declared default, and yields the same key as the calls that
\* supply y with the other arguments equal.
C36_Original ==
    (/\ invocation.valid
     /\ Excluded(invocation.func) # <<>>
     /\ bind(invocation.func, invocation.args, invocation.kwargs).raised = None
     /\ "y" \notin Supplied(invocation)
     /\ \A n \in Supplied(invocation) : Passed(invocation, n) # Unhashable) =>
        /\ invocation.raised = None
        /\ \A d \in delayed :
              (/\ d.func = invocation.func
               /\ "y" \in Supplied(d)
               /\ Passed(d, "x") = Passed(invocation, "x")) =>
                  d.key = invocation.key

\* C37 as stated: in the target-based variant, the Save callback writes
\* the result of a finished task to its target exactly when the task has a
\* target that is not yet complete (a complete target is never
\* overwritten), and the Load scope replaces exactly the tasks whose target
\* is complete by their load operation and then prunes the graph to the
\* requested keys.
C37_Original ==
    targets.run.valid =>
        /\ targets.run.mode = "Save" =>
              \A key \in DOMAIN targets.run.dsk :
                  IF /\ key \in targets.run.with
                     /\ ~complete(targets.run.before, key)
                  THEN /\ complete(targets.memory, key)
                       /\ targets.memory[key] = TargetValue(key)
                  ELSE /\ complete(targets.memory, key)
                             <=> complete(targets.run.before, key)
                       /\ complete(targets.memory, key) =>
                             targets.memory[key] = targets.run.before[key]
        /\ targets.run.mode = "Load" =>
              targets.run.dsk =
                  cull([key \in DOMAIN targets.run.graph |->
                           IF /\ key \in targets.run.with
                              /\ complete(targets.run.before, key)
                           THEN MethodEntry(key, targets.run.graph[key])
                           ELSE targets.run.graph[key]],
                       targets.run.keys)

====
